---- MODULE Spec2Model ----
(***************************************************************************)
(* SEO Friendly Description Generator (src/main.ts).                       *)
(*                                                                         *)
(* The plugin's command handler generateDescription reads the editor       *)
(* buffer, awaits two calls of callAIAPI (description, then keywords) and, *)
(* when both results are non-empty, patches the frontmatter of the buffer  *)
(* with updateFrontmatter.  Texts are strings; the two regular expressions *)
(* and String.prototype.replace are computed character by character.       *)
(***************************************************************************)
EXTENDS Integers, Sequences, FiniteSets, TLC

\* ------------------------------------------------------------------ bounds
\* Invocations of the command that may be in flight together.
MaxInvocations == 2
\* Direct calls of updateFrontmatter in the patcher specification.
MaxPatches == 2
\* Lines of a generated metadata block.
MaxLines == 3

\* ----------------------------------------------------------- string helpers
Min(S) == CHOOSE a \in S : \A b \in S : a <= b

CharAt(s, i) == SubSeq(s, i, i)

\* s has p at position i (1-based).
MatchAt(s, i, p) ==
    /\ i >= 1
    /\ i + Len(p) - 1 <= Len(s)
    /\ SubSeq(s, i, i + Len(p) - 1) = p

\* First position >= from where p occurs in s, 0 when there is none.
IndexFrom(s, p, from) ==
    LET I == {i \in from..(Len(s) - Len(p) + 1) : MatchAt(s, i, p)}
    IN  IF I = {} THEN 0 ELSE Min(I)

\* String.prototype.includes
includes(s, p) == IndexFrom(s, p, 1) # 0

\* Characters String.prototype.trim strips.
WhiteSpace == {" ", "\t", "\n", "\r"}

\* Characters the regular expression atom "." does not match.
LineTerminators == {"\n", "\r"}

\* String.prototype.trim
trim(s) ==
    LET I == {i \in 1..Len(s) : CharAt(s, i) \notin WhiteSpace}
    IN  IF I = {} THEN "" ELSE SubSeq(s, Min(I), CHOOSE j \in I : \A k \in I : k <= j)

Digits == {"0", "1", "2", "3", "4", "5", "6", "7", "8", "9"}

DigitVal(c) == CHOOSE n \in 0..9 : CharAt("0123456789", n + 1) = c

\* A regular expression match: index and last are the first and last position
\* of the matched text (last = index - 1 for an empty match), captures the
\* capture groups.
NoMatch == [found |-> FALSE, index |-> 0, last |-> 0, captures |-> <<>>]

\* GetSubstitution of String.prototype.replace: the replacement template tpl
\* read from position i, with $$, $&, $`, $' and $n / $nn expanded against the
\* match m of the string s.
RECURSIVE GetSubstitution(_, _, _, _)
GetSubstitution(s, m, tpl, i) ==
    IF i > Len(tpl) THEN ""
    ELSE IF CharAt(tpl, i) # "$" \/ i = Len(tpl)
         THEN CharAt(tpl, i) \o GetSubstitution(s, m, tpl, i + 1)
    ELSE LET c == CharAt(tpl, i + 1)
             n == Len(m.captures)
         IN  CASE c = "$" -> "$" \o GetSubstitution(s, m, tpl, i + 2)
               [] c = "&" -> SubSeq(s, m.index, m.last) \o GetSubstitution(s, m, tpl, i + 2)
               [] c = "`" -> SubSeq(s, 1, m.index - 1) \o GetSubstitution(s, m, tpl, i + 2)
               [] c = "'" -> SubSeq(s, m.last + 1, Len(s)) \o GetSubstitution(s, m, tpl, i + 2)
               [] c \in Digits ->
                    LET d1 == DigitVal(c)
                        two == i + 2 <= Len(tpl) /\ CharAt(tpl, i + 2) \in Digits
                        d2 == IF two THEN 10 * d1 + DigitVal(CharAt(tpl, i + 2)) ELSE 0
                    IN  IF two /\ d2 >= 1 /\ d2 <= n
                        THEN m.captures[d2] \o GetSubstitution(s, m, tpl, i + 3)
                        ELSE IF d1 >= 1 /\ d1 <= n
                        THEN m.captures[d1] \o GetSubstitution(s, m, tpl, i + 2)
                        ELSE "$" \o GetSubstitution(s, m, tpl, i + 1)
               [] OTHER -> "$" \o GetSubstitution(s, m, tpl, i + 1)

\* String.prototype.replace(regexp, string) for a regular expression without
\* the g flag: the first match m is replaced by the expanded template.
replace(s, m, tpl) ==
    IF ~m.found THEN s
    ELSE SubSeq(s, 1, m.index - 1) \o GetSubstitution(s, m, tpl, 1)
            \o SubSeq(s, m.last + 1, Len(s))

\* --------------------------------------------------- the frontmatter patcher
\* /^---\n([\s\S]*?)\n---/ : anchored at the start of the text, the lazy
\* group ends at the first "\n---" at or after position 5.
frontmatterRegex(s) ==
    IF ~MatchAt(s, 1, "---\n") THEN NoMatch
    ELSE LET j == IndexFrom(s, "\n---", 5)
         IN  IF j = 0 THEN NoMatch
             ELSE [found |-> TRUE, index |-> 1, last |-> j + 3,
                   captures |-> <<SubSeq(s, 5, j - 1)>>]

\* Last position of the run of non-line-terminators of s that starts at i
\* (i - 1 when the run is empty): what a greedy ".*" takes.
RECURSIVE DotStar(_, _)
DotStar(s, i) ==
    IF i > Len(s) \/ CharAt(s, i) \in LineTerminators THEN i - 1
    ELSE DotStar(s, i + 1)

\* The match of new RegExp(`${field}:.*(\n|$)`) that starts at position i.
FieldMatchAt(s, field, i) ==
    IF ~MatchAt(s, i, field \o ":") THEN NoMatch
    ELSE LET e == DotStar(s, i + Len(field) + 1)
         IN  IF e = Len(s)
             THEN [found |-> TRUE, index |-> i, last |-> e, captures |-> <<"">>]
             ELSE IF CharAt(s, e + 1) = "\n"
             THEN [found |-> TRUE, index |-> i, last |-> e + 1, captures |-> <<"\n">>]
             ELSE NoMatch

\* new RegExp(`${field}:.*(\n|$)`) : the leftmost match.
fieldRegex(s, field) ==
    LET I == {i \in 1..Len(s) : FieldMatchAt(s, field, i).found}
    IN  IF I = {} THEN NoMatch ELSE FieldMatchAt(s, field, Min(I))

updateFrontmatterField(frontmatter, field, value) ==
    IF includes(frontmatter, field \o ":")
    THEN replace(frontmatter, fieldRegex(frontmatter, field),
                 field \o ": \"" \o value \o "\"")
    ELSE frontmatter \o "\n" \o field \o ": \"" \o value \o "\""

\* NewBlock without the blank line after the closing delimiter.
NewBlockWithoutBlankLine(description, keywords) ==
    "---\ndescription: \"" \o description \o "\"\nkeywords: \"" \o keywords
        \o "\"\n---\n"

\* The new block synthesized for a text without a metadata block.
NewBlock(description, keywords) ==
    "---\ndescription: \"" \o description \o "\"\nkeywords: \"" \o keywords
        \o "\"\n---\n\n"

\* updateFrontmatter up to editor.setValue: the locals of one call on the
\* buffer text content.
updateFrontmatter(content, description, keywords) ==
    LET frontmatterMatch == frontmatterRegex(content)
    IN  IF frontmatterMatch.found
        THEN LET frontmatter == frontmatterMatch.captures[1]
                 fm1 == updateFrontmatterField(frontmatter, "description", description)
                 fm2 == updateFrontmatterField(fm1, "keywords", keywords)
             IN  [found |-> TRUE, content |-> content,
                  description |-> description, keywords |-> keywords,
                  frontmatter |-> frontmatter, fm1 |-> fm1, fm2 |-> fm2,
                  rest |-> SubSeq(content, frontmatterMatch.last + 1, Len(content)),
                  newContent |-> replace(content, frontmatterMatch,
                                         "---\n" \o fm2 \o "\n---")]
        ELSE [found |-> FALSE, content |-> content,
              description |-> description, keywords |-> keywords,
              frontmatter |-> "", fm1 |-> "", fm2 |-> "", rest |-> "",
              newContent |-> NewBlock(description, keywords) \o content]

\* ------------------------------------------------------- the request builder
FailureNotice(type) ==
    "Failed to generate SEO " \o type
        \o ". Please check your API settings and try again."

SuccessNotice == "SEO description and keywords updated successfully!"

\* What one axios.post can come back with: a 2xx body whose first choice has
\* the message text content, a transport error, a non-2xx status (axios
\* rejects), or a 2xx body without choices[0].message.content (reading it
\* throws a TypeError).
ApiContents == {"new", " old\n", "  "}

Responses ==
    {[kind |-> "ok", content |-> c] : c \in ApiContents}
        \cup {[kind |-> k, content |-> ""] :
                k \in {"transport_error", "http_error", "no_content"}}

\* The try block of callAIAPI throws on every response but an ok one.
Throws(response) == response.kind # "ok"

\* callAIAPI without its catch block: what the try block throws leaves the
\* function.
callAIAPIWithoutCatch(response, type) ==
    IF Throws(response)
    THEN [value |-> "", notices |-> <<>>, raised |-> TRUE]
    ELSE [value |-> trim(response.content), notices |-> <<>>, raised |-> FALSE]

\* callAIAPI once its request has come back with response: the value
\* returned, the notices shown, and whether an exception leaves the function.
callAIAPI(response, type) ==
    IF Throws(response)
    THEN [value |-> "", notices |-> <<FailureNotice(type)>>, raised |-> FALSE]
    ELSE [value |-> trim(response.content), notices |-> <<>>, raised |-> FALSE]

\* The guard with || in place of &&.
ShouldUpdateEither(d, k) == d # "" \/ k # ""

\* The guard of generateDescription: both strings are truthy.
ShouldUpdate(d, k) == d # "" /\ k # ""

\* -------------------------------------------------------------------- state
VARIABLES
    editor,       \* the text of the editor buffer
    pc,           \* each invocation's position in generateDescription
    content,      \* generateDescription's local content, per invocation
    description,  \* the result of the first callAIAPI, per invocation
    keywords,     \* the result of the second callAIAPI, per invocation
    resp,         \* the kind of response each call of an invocation got
    notices,      \* the notices shown by each invocation, in order
    getCalls,     \* calls of editor.getValue by each invocation
    setCalls,     \* calls of editor.setValue by each invocation
    overlap,      \* the invocation was triggered while another was awaiting
    lastArrived,  \* the invocation whose keywords response arrived last
    writer,       \* the invocation that made the last call of updateFrontmatter
    call,         \* the locals of the last call of updateFrontmatter
    patches       \* direct calls of updateFrontmatter made so far

vars == <<editor, pc, content, description, keywords, resp, notices, getCalls,
          setCalls, overlap, lastArrived, writer, call, patches>>

cmdVars == <<pc, content, description, keywords, resp, notices, getCalls,
             setCalls, overlap, lastArrived>>

Invocations == 1..MaxInvocations

Awaiting == {"await_description", "await_keywords"}

NoCall == [found |-> FALSE, content |-> "", description |-> "", keywords |-> "",
           frontmatter |-> "", fm1 |-> "", fm2 |-> "", rest |-> "", newContent |-> ""]

\* The document the command is run on: it has no metadata block, so the
\* first write takes the synthesizing path and every later write finds the
\* block the first one made.
CmdDocs == {"# Title\nBody text"}

IdleInit ==
    /\ pc = [i \in Invocations |-> "idle"]
    /\ content = [i \in Invocations |-> ""]
    /\ description = [i \in Invocations |-> ""]
    /\ keywords = [i \in Invocations |-> ""]
    /\ resp = [i \in Invocations |-> [description |-> "none", keywords |-> "none"]]
    /\ notices = [i \in Invocations |-> <<>>]
    /\ getCalls = [i \in Invocations |-> 0]
    /\ setCalls = [i \in Invocations |-> 0]
    /\ overlap = [i \in Invocations |-> FALSE]
    /\ lastArrived = 0
    /\ writer = 0
    /\ call = NoCall
    /\ patches = 0

Init ==
    /\ editor \in CmdDocs
    /\ IdleInit

\* The editorCallback of the command: generateDescription up to its first
\* await (editor.getValue, then the description request is posted).
\* Invocations are numbered in the order they are triggered.
Trigger(i) ==
    /\ pc[i] = "idle"
    /\ \A j \in Invocations : j < i => pc[j] # "idle"
    /\ content' = [content EXCEPT ![i] = editor]
    /\ getCalls' = [getCalls EXCEPT ![i] = @ + 1]
    /\ overlap' = [overlap EXCEPT ![i] = \E j \in Invocations : pc[j] \in Awaiting]
    /\ pc' = [pc EXCEPT ![i] = "await_description"]
    /\ UNCHANGED <<editor, description, keywords, resp, notices, setCalls,
                   lastArrived, writer, call, patches>>

\* The description request of invocation i comes back: callAIAPI returns and
\* generateDescription posts the keywords request.
DescriptionResponse(i, r) ==
    /\ pc[i] = "await_description"
    /\ LET res == callAIAPI(r, "description")
       IN  /\ description' = [description EXCEPT ![i] = res.value]
           /\ notices' = [notices EXCEPT ![i] = @ \o res.notices]
           /\ pc' = [pc EXCEPT ![i] = IF res.raised THEN "rejected" ELSE "await_keywords"]
    /\ resp' = [resp EXCEPT ![i].description = r.kind]
    /\ UNCHANGED <<editor, content, keywords, getCalls, setCalls, overlap,
                   lastArrived, writer, call, patches>>

\* The keywords request of invocation i comes back: callAIAPI returns and
\* generateDescription runs to its end, through updateFrontmatter
\* (editor.getValue, editor.setValue, the success notice) when both results
\* are non-empty.
KeywordsResponse(i, r) ==
    /\ pc[i] = "await_keywords"
    /\ LET res == callAIAPI(r, "keywords")
           upd == updateFrontmatter(editor, description[i], res.value)
       IN  /\ keywords' = [keywords EXCEPT ![i] = res.value]
           /\ pc' = [pc EXCEPT ![i] = IF res.raised THEN "rejected" ELSE "done"]
           /\ IF ~res.raised /\ ShouldUpdate(description[i], res.value)
              THEN /\ getCalls' = [getCalls EXCEPT ![i] = @ + 1]
                   /\ call' = upd
                   /\ writer' = i
                   /\ editor' = upd.newContent
                   /\ setCalls' = [setCalls EXCEPT ![i] = @ + 1]
                   /\ notices' = [notices EXCEPT ![i] = @ \o res.notices \o <<SuccessNotice>>]
              ELSE /\ notices' = [notices EXCEPT ![i] = @ \o res.notices]
                   /\ UNCHANGED <<editor, getCalls, setCalls, writer, call>>
    /\ resp' = [resp EXCEPT ![i].keywords = r.kind]
    /\ lastArrived' = i
    /\ UNCHANGED <<content, description, overlap, patches>>

Next ==
    \E i \in Invocations :
        \/ Trigger(i)
        \/ \E r \in Responses : DescriptionResponse(i, r)
        \/ \E r \in Responses : KeywordsResponse(i, r)

Spec == Init /\ [][Next]_vars

\* ------------------------------------------- the patcher on its own: inputs
\* Lines a metadata block is built from.
FieldLines == {"description: \"old\"", "keywords: \"old\"", "title: t",
               "og_description: \"x\""}

\* Blocks of up to MaxLines lines with distinct keys.
Blocks ==
    {b \in UNION {[1..n -> FieldLines] : n \in 0..MaxLines} :
        \A i, j \in DOMAIN b : i # j => b[i] # b[j]}

RECURSIVE Join(_)
Join(ls) ==
    IF Len(ls) = 0 THEN ""
    ELSE IF Len(ls) = 1 THEN ls[1]
    ELSE ls[1] \o "\n" \o Join(Tail(ls))

\* What follows the block: a closing line of three dashes, or one with a
\* further character after the dashes.
Closings == {"\n---\nBody", "\n---x\nBody"}

PatchDocs ==
    {"---\n" \o Join(b) \o c : b \in Blocks, c \in Closings}
        \cup {"# Title\nBody text", "", "---\ntitle: t\nBody",
              "\n---\ntitle: t\n---\nBody", "---\n---\nBody"}

DescriptionValues == {"old", "new", "$1"}

KeywordsValues == {"old", "title, blog"}

PatchInit ==
    /\ editor \in PatchDocs
    /\ IdleInit

\* updateFrontmatter(editor, d, k) called on the buffer.
Patch(d, k) ==
    /\ patches < MaxPatches
    /\ call' = updateFrontmatter(editor, d, k)
    /\ editor' = call'.newContent
    /\ writer' = 0
    /\ patches' = patches + 1
    /\ UNCHANGED cmdVars

PatchNext == \E d \in DescriptionValues, k \in KeywordsValues : Patch(d, k)

SpecPatch == PatchInit /\ [][PatchNext]_vars

\* ------------------------------------------- what the claims are stated with
\* The lines of a text: the pieces between its "\n" characters.
RECURSIVE SplitLines(_)
SplitLines(s) ==
    LET j == IndexFrom(s, "\n", 1)
    IN  IF j = 0 THEN <<s>>
        ELSE <<SubSeq(s, 1, j - 1)>> \o SplitLines(SubSeq(s, j + 1, Len(s)))

\* The metadata block as the specification words it: the text starts with a
\* line of exactly three dashes, content follows, and a line of exactly three
\* dashes closes it.
StrictBlock(text) ==
    LET ls == SplitLines(text)
        J == {j \in 3..Len(ls) : ls[j] = "---"}
    IN  IF ls[1] = "---" /\ J # {}
        THEN [found |-> TRUE, lines |-> SubSeq(ls, 2, Min(J) - 1),
              after |-> SubSeq(ls, Min(J) + 1, Len(ls))]
        ELSE [found |-> FALSE, lines |-> <<>>, after |-> <<>>]

FieldLine(field, value) == field \o ": \"" \o value \o "\""

\* The block of text holds the line field: "value" as a line of its own.
HasFieldLine(text, field, value) ==
    LET b == StrictBlock(text)
    IN  b.found /\ \E n \in 1..Len(b.lines) : b.lines[n] = FieldLine(field, value)

Range(f) == {f[x] : x \in DOMAIN f}

FailureKinds == {"transport_error", "http_error", "no_content"}

Failed(i) == resp[i].description \in FailureKinds \/ resp[i].keywords \in FailureKinds

\* -------------------------------------------------------------------- claims

\* C1: when either API call of an invocation fails (transport error, non-2xx
\* status, response without choices[0].message.content), callAIAPI returns
\* the empty string, no exception leaves it (the invocation is never
\* rejected), and that invocation never calls editor.setValue.
C1_FailureReturnsEmptyAndLeavesDocument ==
    \A i \in Invocations :
        /\ resp[i].description \in FailureKinds => description[i] = ""
        /\ resp[i].keywords \in FailureKinds => keywords[i] = ""
        /\ Failed(i) => /\ pc[i] # "rejected"
                        /\ setCalls[i] = 0
                        /\ SuccessNotice \notin Range(notices[i])
                        /\ writer # i

C1_Witness ==
    \E i \in Invocations :
        /\ pc[i] = "done"
        /\ resp[i].description = "ok" /\ description[i] = "new"
        /\ resp[i].keywords = "transport_error"
        /\ editor \in CmdDocs

\* C2: on a text T in which no metadata block is found, updateFrontmatter
\* with description D and keywords K writes exactly
\* ---\ndescription: "D"\nkeywords: "K"\n---\n\n followed by T: the new block
\* holds the two fields and nothing else, then a blank line, then T.
C2_NewBlockThenBlankLineThenText ==
    (patches >= 1 /\ ~call.found) =>
        /\ editor = "---\ndescription: \"" \o call.description
                        \o "\"\nkeywords: \"" \o call.keywords \o "\"\n---\n\n"
                        \o call.content
        /\ StrictBlock(editor).lines = <<FieldLine("description", call.description),
                                         FieldLine("keywords", call.keywords)>>
        /\ StrictBlock(editor).after = <<"">> \o SplitLines(call.content)

C2_Witness ==
    /\ patches = 1
    /\ ~call.found
    /\ call.content = "# Title\nBody text"
    /\ call.description = "$1"
    /\ editor = "---\ndescription: \"$1\"\nkeywords: \"title, blog\"\n---\n\n# Title\nBody text"

\* C3: in a block that holds the line description: "old" (first, middle or
\* last), patching the description with "new" replaces exactly that line by
\* description: "new"; every other line and every line separator of the
\* block stays.
C3_OnlyDescriptionLineReplaced ==
    LET ls == SplitLines(call.frontmatter)
        N == {n \in 1..Len(ls) : ls[n] = FieldLine("description", "old")}
    IN  (patches >= 1 /\ call.found /\ call.description = "new" /\ N # {}) =>
            SplitLines(call.fm1) = [ls EXCEPT ![Min(N)] = FieldLine("description", "new")]

\* C4: updateFrontmatter with D and K on a text whose metadata block already
\* holds description: "D" and keywords: "K" yields the same text.
C4_PatchIsIdempotent ==
    (/\ patches >= 1
     /\ HasFieldLine(call.content, "description", call.description)
     /\ HasFieldLine(call.content, "keywords", call.keywords)) =>
        editor = call.content

\* C5: after updateFrontmatter(D, K) the text starts with a metadata block
\* that holds the line description: "D" and the line keywords: "K".
C5_BothFieldsPresentAsLines ==
    patches >= 1 =>
        /\ HasFieldLine(editor, "description", call.description)
        /\ HasFieldLine(editor, "keywords", call.keywords)

\* C6: an invocation whose two API calls have returned has notified the
\* user: the success notice is shown exactly when the document was replaced,
\* and a failure notice has been shown whenever it was not.
C6_UserAlwaysNotified ==
    \A i \in Invocations :
        pc[i] = "done" =>
            /\ (SuccessNotice \in Range(notices[i])) <=> (setCalls[i] = 1)
            /\ setCalls[i] = 0 =>
                  \E t \in {"description", "keywords"} :
                      FailureNotice(t) \in Range(notices[i])

\* C7: when an invocation was triggered while another was awaiting and all
\* of them succeed, the final document is the one written by the invocation
\* whose last response arrived last, and its description and keywords are
\* that invocation's results.
C7_LastResponseWins ==
    (/\ \A i \in Invocations : pc[i] = "done" /\ setCalls[i] = 1
     /\ \E i \in Invocations : overlap[i]) =>
        /\ writer = lastArrived
        /\ HasFieldLine(editor, "description", description[lastArrived])
        /\ HasFieldLine(editor, "keywords", keywords[lastArrived])

\* C8 as stated: one invocation calls editor.getValue exactly once and
\* editor.setValue once when both results are non-empty (never otherwise),
\* and the text patched is the snapshot that was sent to the API.
C8_ReadOnceWriteOnce ==
    \A i \in Invocations :
        pc[i] = "done" =>
            /\ getCalls[i] = 1
            /\ setCalls[i] = IF description[i] # "" /\ keywords[i] # "" THEN 1 ELSE 0
            /\ writer = i => call.content = content[i]

C8Counts ==
    \A i \in Invocations :
        /\ pc[i] = "idle" => getCalls[i] = 0 /\ setCalls[i] = 0
        /\ pc[i] \in Awaiting => getCalls[i] = 1 /\ setCalls[i] = 0
        /\ pc[i] = "done" =>
              IF description[i] # "" /\ keywords[i] # ""
              THEN getCalls[i] = 2 /\ setCalls[i] = 1
              ELSE getCalls[i] = 1 /\ setCalls[i] = 0

C8WritesCurrentBuffer ==
    \A i \in Invocations :
        setCalls'[i] # setCalls[i] =>
            /\ call'.content = editor
            /\ editor' = call'.newContent

\* C8 amended: an invocation calls editor.getValue once when it starts and a
\* second time inside updateFrontmatter when both results are non-empty;
\* it calls editor.setValue once when both results are non-empty and never
\* otherwise; the text patched and written back is the buffer as read at the
\* time of the write.
C8_ReadAtStartAndAtWrite == []C8Counts /\ [][C8WritesCurrentBuffer]_vars

\* An invocation has patched a buffer that differs from its snapshot.
C8_Witness ==
    \E i \in Invocations :
        /\ pc[i] = "done"
        /\ getCalls[i] = 2 /\ setCalls[i] = 1
        /\ writer = i
        /\ call.content # content[i]

\* C9: updateFrontmatter takes the block path exactly when the text starts
\* with a line of three dashes, followed by content, followed by a line of
\* exactly three dashes.
C9_BlockFoundIffDelimitedByDashLines ==
    patches >= 1 => (call.found <=> StrictBlock(call.content).found)

\* C10: when a block is found, the output is the rewritten block followed by
\* exactly the original remainder of the document, whatever the description
\* and keywords are.
C10_RestOfDocumentUnchanged ==
    (patches >= 1 /\ call.found) =>
        editor = "---\n" \o call.fm2 \o "\n---" \o call.rest
====
